---- MODULE Spec2Model ----
(***************************************************************************)
(* Model of async_tui/main.c: a UI thread (main) and a network thread      *)
(* (network_thread) that communicate through two pipes, a fixed array of   *)
(* response slots with an atomic cursor, and an atomic shutdown flag.      *)
(*                                                                         *)
(* The transfer engine (libcurl's multi interface) is an external          *)
(* collaborator.  It is modelled by its interface only: a transfer makes   *)
(* progress only inside curl_multi_perform, which may call the write       *)
(* callback any number of times and may finish the transfer in the same    *)
(* call; curl_multi_poll returns on readiness of the extra descriptor, on  *)
(* socket activity, on a pending curl_multi_wakeup, or on its timeout.     *)
(* CURLM error returns (lines 214-216, 232-234) are not modelled.          *)
(***************************************************************************)
EXTENDS Integers, Sequences, FiniteSets, TLC

\* ---- bounds of the model ------------------------------------------------
MaxRequests == 2   \* requests the UI submits in one run
MaxChunks == 1     \* write_cb calls per transfer
MaxResize == 1     \* a SIGWINCH arrives only while fewer bytes are pending
MaxKeys == 2       \* keystrokes of a keystroke run
MaxLog == 3        \* characters stored in the log that a redraw is given
MaxRows == 3       \* rows of the terminal that a redraw is given
MaxCols == 2       \* columns of the terminal that a redraw is given

\* ---- program constants --------------------------------------------------
Capacity == 1024   \* responses[1024]
BufSize == 128     \* char buf[128]

Requests == 1..MaxRequests
Slots == 0..(MaxRequests - 1)
Keys == {"CR", "ETX", "OTHER"}

\* The characters read_char tells apart: carriage return, 127, '\b', the two
\* quotes, printable characters, and OTHER for a character that is not
\* printable and has no case of its own.
Printable == {"a", "b"}
AllKeys == {"CR", "DEL", "BS", "DQ", "SQ", "OTHER"} \cup Printable

VARIABLES
  \* main thread
  upc,                  \* position of the main thread
  ui_i,                 \* redraw's loop variable i
  fds0, fds1,           \* fds[0].revents, fds[1].revents
  \* shared
  pipe,                 \* state.pipe: queued pipe_events (request ids)
  notify,               \* bytes pending in state.notify_ui_pipe
  notify_open,          \* notify_ui_pipe descriptors are open
  wakeup,               \* a curl_multi_wakeup is pending
  done,                 \* state.done
  responses,            \* state.buffer.responses
  latest_response,      \* state.buffer.latest_response
  \* network thread
  wpc,                  \* position of the network thread
  running_handles,
  prev_running_handles,
  revents,              \* pipe_waiter.revents & CURL_WAIT_POLLIN
  \* transfer engine (the easy handle inside the multi handle)
  alive,                \* number of running transfers in the multi handle
  cur,                  \* request the easy handle is transferring (0: none)
  writedata,            \* CURLOPT_WRITEDATA: index of the slot written to
  nchunks,              \* write_cb calls made for the current transfer
  \* process
  aborted,              \* an assert failed
  \* history
  nsub,                 \* requests submitted so far
  started,              \* requests in the order their transfers were started
  completed,            \* requests in the order their transfers completed
  result,               \* what the engine reported for the transfer that
                        \* completed since the last curl_multi_poll returned:
                        \* "none", "ok" or "failed"
  slot_of,              \* slot index reserved for a request's transfer
  freed,                \* number of free() calls on a request's url
  freed_by,             \* who released the request
  wake_pending,         \* bytes pending in the wake pipe when poll returned
  rendered,             \* slots whose payload the running redraw has drawn
  \* session state and terminal
  buf,                  \* main's buf[128]: the NUL-terminated input line
  scroll,               \* state.scroll
  url_of,               \* the strdup'ed url of each pipe_event
  key,                  \* the character a keystroke run gave to read_char last
  win,                  \* get_win_size(): [rows, cols]
  screen,               \* what the last redraw printed: <<row, text>> pairs
  keys_left             \* keystrokes still to come in a keystroke run

vars == <<upc, ui_i, fds0, fds1, pipe, notify, notify_open, wakeup, done,
          responses, latest_response, wpc, running_handles,
          prev_running_handles, revents, alive, cur, writedata, nchunks,
          aborted, nsub, started, completed, result, slot_of,
          freed, freed_by, wake_pending, rendered,
          buf, scroll, url_of, key, win, screen, keys_left>>

uiVars == <<upc, ui_i, fds0, fds1, wake_pending, rendered>>
wkVars == <<wpc, running_handles, prev_running_handles, revents>>
engVars == <<alive, cur, writedata, nchunks>>
histVars == <<started, completed, result, slot_of>>
freeVars == <<freed, freed_by>>
logVars == <<responses, latest_response>>
xVars == <<buf, scroll, url_of, key, win, screen, keys_left>>

EmptySlot == [alloc |-> FALSE, response |-> <<>>, size |-> 0]

\* init_state and main up to line 380, the network thread not yet scheduled
InitShared ==
  /\ ui_i = 0 /\ fds1 = FALSE
  /\ pipe = <<>> /\ notify = 0 /\ notify_open = TRUE
  /\ wakeup = FALSE /\ done = FALSE
  /\ wpc = "check_done"
  /\ running_handles = 0 /\ prev_running_handles = -1 /\ revents = FALSE
  /\ alive = 0 /\ cur = 0 /\ writedata = 0 /\ nchunks = 0
  /\ aborted = FALSE
  /\ nsub = 0
  /\ started = <<>> /\ completed = <<>> /\ result = "none"
  /\ slot_of = [r \in Requests |-> 0]
  /\ freed = [r \in Requests |-> 0]
  /\ freed_by = [r \in Requests |-> "none"]
  /\ wake_pending = 0 /\ rendered = {}
  /\ url_of = [r \in Requests |-> <<>>]
  /\ key = "NONE"
  /\ screen = <<>>

\* the main thread is about to call redraw for the first time (line 383)
InitThreads ==
  /\ InitShared
  /\ upc = "redraw" /\ fds0 = FALSE

\* line 380 (buf zeroed), line 150 (scroll zeroed); the terminal size plays
\* no part in the threads' protocol
InitSession ==
  /\ buf = <<>> /\ scroll = 0
  /\ win = [rows |-> 0, cols |-> 0]
  /\ keys_left = 0

Init ==
  /\ InitThreads /\ InitSession
  /\ responses = [s \in Slots |-> EmptySlot]
  /\ latest_response = 0

\* ---- helpers -------------------------------------------------------------

NotifyMain_Lost == notify' = notify /\ aborted' = aborted

\* notify_main(): write one byte to notify_fd, assert(ret == 1)
NotifyMain ==
  IF notify_open
    THEN notify' = notify + 1 /\ aborted' = aborted
    ELSE notify' = notify /\ aborted' = TRUE

\* write_cb, lines 84-88: realloc, mem->response = ptr, memcpy of the chunk
WriteCbCopy(mem, chunk) ==
  [mem EXCEPT !.alloc = TRUE, !.response = Append(@, chunk)]

\* write_cb, lines 89-90: mem->size += realsize
WriteCbSize(mem) == [mem EXCEPT !.size = @ + 1]

\* free(read_event.url) / free(ev.url)
FreeUrl_Leak(f, r) == f

FreeUrl(f, r) == [f EXCEPT ![r] = @ + 1]

\* write(state->pipe[WRITE_END], &event, sizeof(event)): a pipe is FIFO
PipeWrite_Front(p, ev) == <<ev>> \o p

PipeWrite(p, ev) == Append(p, ev)

\* line 222: prev_running_handles == 1 && running_handles == 0
CompletionEdge(prev, running) == prev = 1 /\ running = 0

\* line 239: running_handles == 0 && pipe_waiter.revents & CURL_WAIT_POLLIN
StartAllowed_NoIdle(running, rev) == rev

StartAllowed(running, rev) == running = 0 /\ rev

\* line 249: &state->buffer.responses[state->buffer.latest_response]
ReserveSlot_Prev(n) == IF n > 0 THEN n - 1 ELSE 0

ReserveSlot(n) == n

\* line 223: ++state->buffer.latest_response == 1024
CapacityReached_Never(n) == FALSE

CapacityReached_Late(n) == n > Capacity

CapacityReached(n) == n = Capacity

\* The lowest slot index of the modelled part of responses.  Slots below it
\* were published before the modelled run; redraw's walk over them is folded
\* into the step that ends its loop.
FirstSlot ==
  CHOOSE s \in DOMAIN responses : \A t \in DOMAIN responses : s <= t

\* isprint(c)
IsPrint(c) == c \in Printable \cup {"DQ", "SQ"}

\* read_char, lines 284-311: what it leaves in buf
ReadCharBuf_NoLimit(b, c) ==
  CASE c = "CR" -> <<>>
    [] c \in {"DEL", "BS"} -> IF Len(b) > 0 THEN SubSeq(b, 1, Len(b) - 1) ELSE b
    [] c \in {"DQ", "SQ"} -> b
    [] OTHER -> IF IsPrint(c) THEN Append(b, c) ELSE b

ReadCharBuf_BsClears(b, c) ==
  CASE c = "CR" -> <<>>
    [] c \in {"DEL", "BS"} -> <<>>
    [] c \in {"DQ", "SQ"} -> b
    [] OTHER -> IF (Len(b) + 1) < BufSize /\ IsPrint(c) THEN Append(b, c) ELSE b

ReadCharBuf(b, c) ==
  CASE c = "CR" -> <<>>                                     \* memset, line 290
    [] c \in {"DEL", "BS"} ->                                \* lines 293-298
         IF Len(b) > 0 THEN SubSeq(b, 1, Len(b) - 1) ELSE b
    [] c \in {"DQ", "SQ"} -> b
    [] OTHER ->                                              \* lines 307-310
         IF (Len(b) + 1) < BufSize /\ IsPrint(c) THEN Append(b, c) ELSE b

\* read_char, lines 299-306: what it leaves in state->scroll
ReadCharScroll_Clamp(sc, c) ==
  CASE c = "DQ" -> IF sc > 0 THEN sc - 1 ELSE sc
    [] c = "SQ" -> sc + 1
    [] OTHER -> sc

ReadCharScroll(sc, c) ==
  CASE c = "DQ" -> sc - 1
    [] c = "SQ" -> sc + 1
    [] OTHER -> sc

\* send_request, line 270: strdup(buf)
StrDup_Empty(b) == <<>>

StrDup(b) == b

\* read_char(state, buf, c) up to the write of send_request (line 276); the
\* curl_multi_wakeup of line 280 is the caller's next step
ReadChar(c) ==
  /\ buf' = ReadCharBuf(buf, c)
  /\ scroll' = ReadCharScroll(scroll, c)
  /\ IF c = "CR"
       THEN /\ nsub < MaxRequests
            /\ pipe' = PipeWrite(pipe, nsub + 1)
            /\ url_of' = [url_of EXCEPT ![nsub + 1] = StrDup(buf)]
            /\ nsub' = nsub + 1
       ELSE UNCHANGED <<pipe, url_of, nsub>>

\* ---- network thread ------------------------------------------------------

\* line 209 (and 258-265 when the flag is set)
WCheckDone ==
  /\ ~aborted /\ wpc = "check_done"
  /\ IF done
       THEN /\ wpc' = "stopped"
            /\ alive' = 0 /\ cur' = 0    \* curl_multi_remove_handle
       ELSE /\ wpc' = "perform"
            /\ UNCHANGED <<alive, cur>>
  /\ UNCHANGED <<xVars, running_handles, prev_running_handles, revents, writedata,
                 nchunks, uiVars, pipe, notify, notify_open, wakeup, done,
                 logVars, aborted, nsub, histVars, freeVars>>

\* curl_multi_perform calls write_cb with a chunk (lines 80-88)
WPerformDeliver ==
  /\ ~aborted /\ wpc = "perform"
  /\ alive = 1 /\ nchunks < MaxChunks
  /\ responses' = [responses EXCEPT ![writedata] = WriteCbCopy(@, cur)]
  /\ nchunks' = nchunks + 1
  /\ wpc' = "write_cb"
  /\ UNCHANGED <<xVars, running_handles, prev_running_handles, revents, alive, cur,
                 writedata, uiVars, pipe, notify, notify_open, wakeup, done,
                 latest_response, aborted, nsub, histVars, freeVars>>

\* write_cb, lines 89-92
WWriteCbSize ==
  /\ ~aborted /\ wpc = "write_cb"
  /\ responses' = [responses EXCEPT ![writedata] = WriteCbSize(@)]
  /\ wpc' = "perform"
  /\ UNCHANGED <<xVars, running_handles, prev_running_handles, revents, engVars,
                 uiVars, pipe, notify, notify_open, wakeup, done,
                 latest_response, aborted, nsub, histVars, freeVars>>

\* line 212: curl_multi_perform returns, the transfer has finished in this call
WPerformComplete ==
  /\ ~aborted /\ wpc = "perform"
  /\ alive = 1
  /\ result' \in {"ok", "failed"}
  /\ completed' = Append(completed, cur)
  /\ alive' = 0 /\ cur' = 0 /\ nchunks' = 0
  /\ running_handles' = 0
  /\ wpc' = "edge"
  /\ UNCHANGED <<xVars, prev_running_handles, revents, writedata, uiVars,
                 pipe, notify, notify_open, wakeup, done, logVars, aborted,
                 nsub, started, slot_of, freeVars>>

\* line 212: curl_multi_perform returns, no transfer finished in this call
WPerformReturn ==
  /\ ~aborted /\ wpc = "perform"
  /\ running_handles' = alive
  /\ wpc' = "edge"
  /\ UNCHANGED <<xVars, prev_running_handles, revents, engVars, uiVars, pipe, notify,
                 notify_open, wakeup, done, logVars, aborted, nsub, histVars, freeVars>>

\* lines 222-225
WEdge ==
  /\ ~aborted /\ wpc = "edge"
  /\ IF CompletionEdge(prev_running_handles, running_handles)
       THEN /\ latest_response' = latest_response + 1
            /\ IF CapacityReached(latest_response')
                 THEN aborted' = TRUE /\ wpc' = wpc
                 ELSE aborted' = aborted /\ wpc' = "notify"
       ELSE /\ wpc' = "poll"
            /\ UNCHANGED <<latest_response, aborted>>
  /\ UNCHANGED <<xVars, running_handles, prev_running_handles, revents, engVars,
                 uiVars, pipe, notify, notify_open, wakeup, done, responses,
                 nsub, histVars, freeVars>>

\* line 227
WNotify ==
  /\ ~aborted /\ wpc = "notify"
  /\ NotifyMain
  /\ wpc' = "poll"
  /\ UNCHANGED <<xVars, running_handles, prev_running_handles, revents, engVars,
                 uiVars, pipe, notify_open, wakeup, done, logVars, nsub,
                 histVars, freeVars>>

\* line 230: curl_multi_poll returns because the command pipe is readable or
\* a curl_multi_wakeup is pending (the pending wakeup is consumed)
WPollReady ==
  /\ ~aborted /\ wpc = "poll"
  /\ (Len(pipe) > 0 \/ wakeup)
  /\ revents' = (Len(pipe) > 0)
  /\ wakeup' = FALSE
  /\ wpc' = "after_poll"
  /\ result' = "none"
  /\ UNCHANGED <<xVars, running_handles, prev_running_handles, engVars, uiVars, pipe,
                 notify, notify_open, done, logVars, aborted, nsub, started, completed,
                 slot_of, freeVars>>

\* line 230: curl_multi_poll returns because of activity on the transfer
WPollSocket ==
  /\ ~aborted /\ wpc = "poll"
  /\ alive = 1
  /\ revents' = (Len(pipe) > 0)
  /\ wakeup' = FALSE
  /\ wpc' = "after_poll"
  /\ result' = "none"
  /\ UNCHANGED <<xVars, running_handles, prev_running_handles, engVars, uiVars, pipe,
                 notify, notify_open, done, logVars, aborted, nsub, started, completed,
                 slot_of, freeVars>>

\* line 230: curl_multi_poll returns because the 10000 ms timeout expired
WPollTimeout ==
  /\ ~aborted /\ wpc = "poll"
  /\ Len(pipe) = 0 /\ ~wakeup
  /\ revents' = FALSE
  /\ wpc' = "after_poll"
  /\ result' = "none"
  /\ UNCHANGED <<xVars, running_handles, prev_running_handles, engVars, uiVars, pipe,
                 notify, notify_open, wakeup, done, logVars, aborted, nsub,
                 started, completed, slot_of, freeVars>>

\* lines 239-255
WAfterPoll ==
  /\ ~aborted /\ wpc = "after_poll"
  /\ IF StartAllowed(running_handles, revents)
       THEN LET ev == Head(pipe)
                slot == ReserveSlot(latest_response)
            IN /\ pipe' = Tail(pipe)                       \* read, line 242
               /\ alive' = 1 /\ cur' = ev                  \* lines 245-250
               /\ writedata' = slot /\ nchunks' = 0
               /\ started' = Append(started, ev)
               /\ slot_of' = [slot_of EXCEPT ![ev] = slot]
               /\ freed' = FreeUrl(freed, ev)              \* line 252
               /\ freed_by' = [freed_by EXCEPT ![ev] = "worker"]
       ELSE UNCHANGED <<pipe, engVars, started, slot_of, freeVars>>
  /\ prev_running_handles' = running_handles
  /\ running_handles' = 0 /\ revents' = FALSE   \* locals of the iteration
  /\ wpc' = "check_done"
  /\ UNCHANGED <<xVars, uiVars, notify, notify_open, wakeup,
                 done, logVars, aborted, nsub, completed, result>>

Worker ==
  \/ WCheckDone \/ WPerformDeliver \/ WWriteCbSize \/ WPerformComplete
  \/ WPerformReturn \/ WEdge \/ WNotify \/ WPollReady \/ WPollSocket
  \/ WPollTimeout \/ WAfterPoll

\* ---- main thread ---------------------------------------------------------

\* redraw, lines 315-324: the loop starts from one read of latest_response
URedrawBegin ==
  /\ ~aborted /\ upc = "redraw"
  /\ ui_i' = latest_response
  /\ rendered' = {}
  /\ upc' = "redraw_loop"
  /\ UNCHANGED <<xVars, fds0, fds1, wake_pending, wkVars, engVars, pipe, notify,
                 notify_open, wakeup, done, logVars, aborted, nsub, histVars, freeVars>>

\* redraw, lines 324-358: one iteration of the loop over the slots, and
\* lines 360-363 when the loop ends
URedrawSlot ==
  /\ ~aborted /\ upc = "redraw_loop"
  /\ IF ui_i > FirstSlot
       THEN /\ rendered' = IF responses[ui_i - 1].alloc
                             THEN rendered \cup {ui_i - 1}
                             ELSE rendered            \* "Failed request"
            /\ ui_i' = ui_i - 1
            /\ upc' = upc
       ELSE /\ upc' = "poll"
            /\ rendered' = {}
            /\ UNCHANGED ui_i
  /\ UNCHANGED <<xVars, fds0, fds1, wake_pending, wkVars, engVars, pipe, notify,
                 notify_open, wakeup, done, logVars, aborted, nsub, histVars, freeVars>>

\* lines 385-389: poll(fds, 2, -1) returns with at least one descriptor ready
UPoll ==
  /\ ~aborted /\ upc = "poll"
  /\ \E keyready \in BOOLEAN :
       /\ keyready \/ notify > 0
       /\ fds0' = keyready
  /\ fds1' = (notify > 0)
  /\ wake_pending' = notify
  /\ upc' = "stdin"
  /\ UNCHANGED <<xVars, ui_i, rendered, wkVars, engVars, pipe, notify, notify_open,
                 wakeup, done, logVars, aborted, nsub, histVars,
                 freeVars>>

\* lines 391-403, with read_char and the write of send_request (line 276)
UStdin ==
  /\ ~aborted /\ upc = "stdin"
  /\ fds0' = FALSE            \* fds[0].revents is not read after line 391
  /\ IF fds0
       THEN \E c \in Keys :
              IF c = "ETX"
                THEN /\ upc' = "c_done"
                     /\ UNCHANGED <<pipe, nsub, buf, scroll, url_of>>
                ELSE /\ ReadChar(c)
                     /\ upc' = IF c = "CR" THEN "send_wakeup" ELSE "notify_read"
       ELSE /\ upc' = "notify_read"
            /\ UNCHANGED <<pipe, nsub, buf, scroll, url_of>>
  /\ UNCHANGED <<key, win, screen, keys_left, ui_i, fds1, wake_pending, rendered,
                 wkVars, engVars, notify, notify_open, wakeup, done, logVars,
                 aborted, histVars, freeVars>>

\* send_request, line 280: curl_multi_wakeup
USendWakeup ==
  /\ ~aborted /\ upc = "send_wakeup"
  /\ wakeup' = TRUE
  /\ upc' = "notify_read"
  /\ UNCHANGED <<xVars, ui_i, fds0, fds1, wake_pending, rendered, wkVars, engVars,
                 pipe, notify, notify_open, done, logVars, aborted, nsub,
                 histVars, freeVars>>

\* line 411: read(state.notify_ui_pipe[READ_END], &(char){'\0'}, 1)
NotifyRead(n) == n - 1

\* lines 406-413
UNotifyRead ==
  /\ ~aborted /\ upc = "notify_read"
  /\ notify' = IF fds1 THEN NotifyRead(notify) ELSE notify
  /\ fds0' = FALSE /\ fds1' = FALSE /\ wake_pending' = 0   \* line 385
  /\ upc' = "redraw"
  /\ UNCHANGED <<xVars, ui_i, rendered, wkVars, engVars,
                 pipe, notify_open, wakeup, done, logVars, aborted, nsub,
                 histVars, freeVars>>

\* cleanup_state, line 163
UCleanupDone ==
  /\ ~aborted /\ upc = "c_done"
  /\ done' = TRUE
  /\ upc' = "c_wakeup"
  /\ UNCHANGED <<xVars, ui_i, fds0, fds1, wake_pending, rendered, wkVars, engVars,
                 pipe, notify, notify_open, wakeup, logVars, aborted, nsub,
                 histVars, freeVars>>

UCleanupWakeup_NoWake ==
  /\ ~aborted /\ upc = "c_wakeup"
  /\ upc' = "c_join"
  /\ UNCHANGED <<xVars, ui_i, fds0, fds1, wake_pending, rendered, wkVars, engVars,
                 pipe, notify, notify_open, wakeup, done, logVars, aborted,
                 nsub, histVars, freeVars>>

\* cleanup_state, line 164
UCleanupWakeup ==
  /\ ~aborted /\ upc = "c_wakeup"
  /\ wakeup' = TRUE
  /\ upc' = "c_join"
  /\ UNCHANGED <<xVars, ui_i, fds0, fds1, wake_pending, rendered, wkVars, engVars,
                 pipe, notify, notify_open, done, logVars, aborted, nsub,
                 histVars, freeVars>>

\* cleanup_state, line 166: pthread_join returns once the thread has exited
UCleanupJoin ==
  /\ ~aborted /\ upc = "c_join"
  /\ wpc = "stopped"
  /\ upc' = "c_drain"
  /\ UNCHANGED <<xVars, ui_i, fds0, fds1, wake_pending, rendered, wkVars, engVars,
                 pipe, notify, notify_open, wakeup, done, logVars, aborted,
                 nsub, histVars, freeVars>>

\* cleanup_state, lines 170-183: one iteration of the drain loop
UCleanupDrain ==
  /\ ~aborted /\ upc = "c_drain"
  /\ IF pipe = <<>>
       THEN /\ upc' = "c_close"                       \* EWOULDBLOCK
            /\ UNCHANGED <<pipe, freeVars>>
       ELSE /\ pipe' = Tail(pipe)
            /\ freed' = FreeUrl(freed, Head(pipe))
            /\ freed_by' = [freed_by EXCEPT ![Head(pipe)] = "cleanup"]
            /\ upc' = upc
  /\ UNCHANGED <<xVars, ui_i, fds0, fds1, wake_pending, rendered, wkVars, engVars,
                 notify, notify_open, wakeup, done, logVars, aborted, nsub,
                 histVars>>

\* cleanup_state, lines 185-189
UCleanupClose ==
  /\ ~aborted /\ upc = "c_close"
  /\ notify_open' = FALSE
  /\ upc' = "c_release"
  /\ UNCHANGED <<xVars, ui_i, fds0, fds1, wake_pending, rendered, wkVars, engVars,
                 pipe, notify, wakeup, done, logVars, aborted, nsub, histVars, freeVars>>

\* cleanup_state, lines 191-197, and the return of main
UCleanupRelease ==
  /\ ~aborted /\ upc = "c_release"
  /\ upc' = "exit"
  /\ UNCHANGED <<xVars, ui_i, fds0, fds1, wake_pending, rendered, wkVars, engVars,
                 pipe, notify, notify_open, wakeup, done, logVars, aborted,
                 nsub, histVars, freeVars>>

UI ==
  \/ URedrawBegin \/ URedrawSlot \/ UPoll \/ UStdin \/ USendWakeup
  \/ UNotifyRead \/ UCleanupDone \/ UCleanupWakeup \/ UCleanupJoin
  \/ UCleanupDrain \/ UCleanupClose \/ UCleanupRelease

\* ---- resize notification -------------------------------------------------

\* sigwinch_handler, line 25; the handler stays installed until the process
\* exits.  A signal that interrupts the main thread's poll makes it return
\* with no revents set (the loop goes back to redraw).
Resize ==
  /\ ~aborted /\ upc # "exit"
  /\ notify < MaxResize
  /\ NotifyMain
  /\ \/ upc' = upc
     \/ upc = "poll" /\ upc' = "redraw"
  /\ UNCHANGED <<xVars, ui_i, fds0, fds1, wake_pending, rendered, wkVars, engVars,
                 pipe, notify_open, wakeup, done, logVars, nsub, histVars,
                 freeVars>>

Next == Worker \/ UI \/ Resize

Spec == Init /\ [][Next]_vars

\* Fairness the scheduling guarantees: both threads keep running, and
\* curl_multi_poll returns when the command pipe is readable or a wakeup is
\* pending.  Socket activity and the expiry of the timeout are not assumed.
WorkerFair ==
  \/ WCheckDone \/ WPerformDeliver \/ WWriteCbSize \/ WPerformComplete
  \/ WPerformReturn \/ WEdge \/ WNotify \/ WPollReady \/ WAfterPoll

SpecLive ==
  /\ Init /\ [][Next]_vars
  /\ WF_vars(WorkerFair)
  /\ WF_vars(UCleanupWakeup \/ UCleanupJoin)

\* ---- keystroke runs ------------------------------------------------------

\* Lines 391-403 for a character other than Ctrl + C, with the whole of
\* send_request, followed by the rest of the iteration up to the next
\* character being ready (redraw and poll change none of these variables).
KeyPress ==
  /\ ~aborted /\ upc = "stdin" /\ fds0
  /\ keys_left > 0
  /\ keys_left' = keys_left - 1
  /\ \E c \in AllKeys :
       /\ key' = c
       /\ ReadChar(c)
       /\ wakeup' = IF c = "CR" THEN TRUE ELSE wakeup      \* line 280
  /\ UNCHANGED <<win, screen, uiVars, wkVars, engVars, notify, notify_open,
                 done, logVars, aborted, histVars, freeVars>>

\* Input lines that typing reaches: empty, one character, one below full
\* and full; the main thread has a character to read.
InitKeys ==
  /\ InitShared
  /\ upc = "stdin" /\ fds0 = TRUE
  /\ buf \in {[i \in 1..n |-> "a"] : n \in {0, 1, BufSize - 2, BufSize - 1}}
  /\ scroll \in -1..1
  /\ win = [rows |-> 0, cols |-> 0]
  /\ keys_left = MaxKeys
  /\ responses = [s \in Slots |-> EmptySlot]
  /\ latest_response = 0

SpecKeys == InitKeys /\ [][KeyPress]_vars

\* ---- redraw: what is printed --------------------------------------------

\* Bytes of a payload: an ordinary character, a tab, a newline and a NUL byte
\* inside the payload. "NUL" is also the terminator that write_cb stores
\* behind the payload (line 90).
Chars == {"x", "\t", "\n", "NUL"}

\* resp->response[p], p counted from 0 as in the source
CharAt(resp, p) == IF p < resp.size THEN resp.response[p + 1] ELSE "NUL"

\* line 345-347: strchr(begin, '\n') scans up to the first NUL byte; without
\* a newline before it the line ends at &resp->response[resp->size]
RECURSIVE StrChr(_, _)
StrChr(resp, p) ==
  CASE CharAt(resp, p) = "\n" -> p
    [] CharAt(resp, p) = "NUL" -> resp.size
    [] OTHER -> StrChr(resp, p + 1)

\* line 354
PutChar(ch) == IF ch = "\t" THEN " " ELSE ch

\* lines 352-355: the characters from begin up to and including *newline,
\* at most size.cols of them
PrintLine(resp, start, cols) ==
  LET newline == StrChr(resp, start)
      n == IF newline + 1 - start < cols THEN newline + 1 - start ELSE cols
  IN  [i \in 1..n |-> PutChar(CharAt(resp, start + i - 1))]

\* line 335: a logical line starts at the payload's start or after a newline
LineStart(resp, start) == start = 0 \/ CharAt(resp, start - 1) = "\n"

\* line 336
NoRowsLeft_Neg(y) == y < 0

NoRowsLeft(y) == y <= 0

\* line 340, the test only; the decrement is in RedrawLines
SkipLine_Extra(n_skip) == n_skip >= 0

SkipLine(n_skip) == n_skip > 0

\* lines 332-356: the loop over one payload, from its end to its start;
\* st is [y, n_skip, out], out the rows printed so far
RECURSIVE RedrawLines(_, _, _, _)
RedrawLines(resp, index, st, cols) ==
  IF index = 0
    THEN st
    ELSE IF ~LineStart(resp, index - 1)
      THEN RedrawLines(resp, index - 1, st, cols)
      ELSE IF NoRowsLeft(st.y)
        THEN st                                             \* break
        ELSE IF SkipLine(st.n_skip)
          THEN RedrawLines(resp, index - 1,
                           [st EXCEPT !.n_skip = @ - 1], cols)
          ELSE RedrawLines(resp, index - 1,
                           [y |-> st.y - 1,
                            n_skip |-> st.n_skip - 1,
                            out |-> Append(st.out,
                                      <<st.y, PrintLine(resp, index - 1, cols)>>)],
                           cols)

\* lines 324-358: the loop over the slots, newest first
RECURSIVE RedrawSlots(_, _, _, _)
RedrawSlots(resps, i, st, cols) ==
  IF i = 0
    THEN st
    ELSE IF ~resps[i - 1].alloc
      THEN RedrawSlots(resps, i - 1, st, cols)              \* "Failed request"
      ELSE RedrawSlots(resps, i - 1,
                       RedrawLines(resps[i - 1], resps[i - 1].size, st, cols),
                       cols)

\* line 361: printf("%.*s", size.cols, buf)
PrintBuf(b, cols) == [i \in 1..(IF Len(b) < cols THEN Len(b) ELSE cols) |-> b[i]]

\* redraw, lines 314-364: the rows printed, each the row given to
\* term_set_cursor and the characters printed after it, in printing order
Redraw(resps, latest, sc, size, b) ==
  LET st == RedrawSlots(resps, latest,
                        [y |-> size.rows - 1, n_skip |-> sc, out |-> <<>>],
                        size.cols)
  IN  Append(st.out, <<size.rows, PrintBuf(b, size.cols)>>)

\* The whole of redraw in one step, for a log that does not change
RRedraw ==
  /\ ~aborted /\ upc = "redraw"
  /\ screen' = Redraw(responses, latest_response, scroll, win, buf)
  /\ upc' = "poll"
  /\ UNCHANGED <<buf, scroll, url_of, key, win, keys_left, ui_i, fds0, fds1,
                 wake_pending, rendered, wkVars, engVars, pipe, notify,
                 notify_open, wakeup, done, logVars, aborted, nsub, histVars,
                 freeVars>>

\* lines 385-403: poll reports a character on stdin and read_char is given
\* one of the two scroll keys
RScrollKey ==
  /\ ~aborted /\ upc = "poll"
  /\ keys_left > 0
  /\ keys_left' = keys_left - 1
  /\ \E c \in {"DQ", "SQ"} : key' = c /\ ReadChar(c)
  /\ upc' = "redraw"
  /\ UNCHANGED <<win, screen, ui_i, fds0, fds1, wake_pending, rendered, wkVars,
                 engVars, notify, notify_open, wakeup, done, logVars, aborted,
                 histVars, freeVars>>

\* A published slot: a failed transfer, or a payload of 1..room characters
PublishedSlots(room) ==
  {EmptySlot} \cup
  UNION {{[alloc |-> TRUE, response |-> pl, size |-> n] : pl \in [1..n -> Chars]}
           : n \in 1..room}

\* The logs of n published slots that hold at most room characters
RECURSIVE Logs(_, _)
Logs(n, room) ==
  IF n = 0
    THEN {<<>>}
    ELSE UNION {{Append(l, v) : l \in Logs(n - 1, room - v.size)}
                  : v \in PublishedSlots(room)}

\* The main thread is about to redraw a log that the network thread has
\* published and no longer changes; the variables of the threads' protocol
\* play no part in redraw.
InitRender ==
  /\ InitThreads
  /\ \E n \in 0..MaxRequests : \E l \in Logs(n, MaxLog) :
       /\ latest_response = n
       /\ responses = [s \in Slots |-> IF s < n THEN l[s + 1] ELSE EmptySlot]
  /\ win \in [rows : 0..MaxRows, cols : 0..MaxCols]
  /\ buf = <<"a", "b">>
  /\ scroll = 0
  /\ keys_left = MaxKeys

SpecRender == InitRender /\ [][RRedraw \/ RScrollKey]_vars

\* The main loop's steps other than the arrival of a keystroke: poll returns
\* when the wake pipe is readable, and the thread keeps running.
UIFair ==
  \/ URedrawBegin \/ URedrawSlot \/ (UPoll /\ ~fds0') \/ UStdin
  \/ USendWakeup \/ UNotifyRead

SpecWake ==
  /\ Init /\ [][Next]_vars
  /\ WF_vars(WorkerFair)
  /\ WF_vars(UIFair \/ UCleanupDone \/ UCleanupWakeup \/ UCleanupJoin
               \/ UCleanupDrain \/ UCleanupClose \/ UCleanupRelease)

\* A run that starts with the response log almost full: latest_response
\* completed transfers lie behind, the slots from Capacity - MaxRequests on
\* are modelled.
InitCap ==
  /\ InitThreads /\ InitSession
  /\ responses = [s \in (Capacity - MaxRequests)..(Capacity - 1) |-> EmptySlot]
  /\ latest_response \in (Capacity - MaxRequests)..(Capacity - 1)

SpecCap == InitCap /\ [][Next]_vars

UIRunning ==
  upc \in {"redraw", "redraw_loop", "poll", "stdin", "send_wakeup",
           "notify_read"}

\* the assert of line 224 has failed
CapacityAbort == aborted /\ wpc = "edge"

\* ---- claims --------------------------------------------------------------

\* C1: the renderer reads slot i only while latest_response > i and the
\* network thread is not inside write_cb on that slot, and the network thread
\* never changes a slot i once latest_response >= i + 1.
C1_PublishedSlotsStable ==
  [][ /\ (upc = "redraw_loop" /\ ui_i > 0 /\ ui_i' = ui_i - 1)
           => /\ latest_response > ui_i - 1
              /\ ~(wpc = "write_cb" /\ writedata = ui_i - 1)
      /\ \A s \in Slots :
           responses'[s] # responses[s] => ~(latest_response >= s + 1)
    ]_vars

\* The UI reads a published slot while the network thread is in the middle
\* of write_cb on a later slot.
C1_Witness ==
  /\ upc = "redraw_loop" /\ ui_i > 0
  /\ wpc = "write_cb" /\ writedata >= ui_i

\* C2 (as claimed): latest_response is incremented exactly once for every
\* completed transfer, so outside the step between the engine's report and
\* the edge check it equals the number of completed transfers.
C2_CountEqualsCompleted ==
  wpc # "edge" => latest_response = Len(completed)

\* C3 (as claimed): slot k holds bytes of the k-th started transfer only.
C3_OneWriterPerSlot ==
  \A s \in Slots :
    \A i \in 1..Len(responses[s].response) :
      /\ Len(started) > s
      /\ responses[s].response[i] = started[s + 1]

\* C4: requests are started and completed in the order of submission, a
\* queued request stays in the command pipe in order, and a transfer is
\* started only when every earlier transfer has completed.
C4_Fifo ==
  /\ started = [i \in 1..Len(started) |-> i]
  /\ completed = SubSeq(started, 1, Len(completed))
  /\ Len(started) <= Len(completed) + 1
  /\ pipe = [i \in 1..Len(pipe) |-> nsub - Len(pipe) + i]
  /\ (alive = 1 /\ done = FALSE) => Len(started) = Len(completed) + 1

\* Request 2 is queued in the command pipe while the transfer of request 1
\* is running and the network thread is driving it.
C4_Witness ==
  /\ alive = 1 /\ cur = 1 /\ nchunks > 0
  /\ pipe = <<2>> /\ wpc = "perform"

\* C5: at most one transfer is in flight, and the network thread takes a
\* request from the command pipe and starts it only when no transfer is
\* running.
C5_OneTransfer ==
  [][ /\ alive' \in {0, 1}
      /\ (started' # started)
           => /\ alive = 0 /\ running_handles = 0
              /\ Len(started) = Len(completed)
              /\ pipe' = Tail(pipe)
    ]_vars

\* The network thread was woken by a readable command pipe while a transfer
\* is running.
C5_Witness ==
  /\ wpc = "after_poll" /\ revents
  /\ alive = 1 /\ running_handles = 1 /\ Len(pipe) > 0

\* C6: every submitted request is released exactly once, by the network
\* thread when it starts the transfer or by cleanup_state when it is still
\* queued; at exit the command pipe is empty and nothing is leaked.
C6_ReleasedOnce ==
  /\ \A r \in Requests : freed[r] <= 1
  /\ \A r \in Requests :
       freed[r] = 1 <=> (r <= nsub /\ \A i \in 1..Len(pipe) : pipe[i] # r)
  /\ upc = "exit" => /\ pipe = <<>>
                     /\ \A r \in 1..nsub : freed[r] = 1

\* Shutdown has completed with one request released by the network thread
\* and one released by cleanup_state.
C6_Witness ==
  /\ upc = "exit"
  /\ \E r \in Requests : freed_by[r] = "worker"
  /\ \E r \in Requests : freed_by[r] = "cleanup"

\* C7: once done is set and curl_multi_wakeup has been issued (the main
\* thread is in pthread_join), the network thread exits and the join
\* returns, and a stopped network thread starts no transfer.
C7_ShutdownTerminates ==
  /\ (upc = "c_join") ~> (wpc = "stopped" /\ upc = "c_drain")
  /\ [][wpc = "stopped" => (wpc' = "stopped" /\ started' = started)]_vars

\* The join has returned after a shutdown that interrupted a transfer.
C7_Witness ==
  /\ upc = "c_drain" /\ wpc = "stopped"
  /\ Len(started) > Len(completed)

\* C8 (as claimed): an iteration whose wait returned because a descriptor
\* was readable consumes from that descriptor.
C8_ReadinessConsumed ==
  [][ /\ (wpc = "after_poll" /\ revents /\ wpc' = "check_done")
           => Len(pipe') < Len(pipe)
      /\ (upc = "notify_read" /\ fds1 /\ upc' = "redraw")
           => notify' < notify
    ]_vars

\* C9 (as claimed): after a wake the main thread has read every byte that
\* was pending in the wake pipe when poll returned.
C9_FullDrain ==
  [][ (upc = "notify_read" /\ fds1 /\ upc' = "redraw")
        => notify' = notify - wake_pending ]_vars

\* C10 (as claimed): a transfer reported as failed is published as a slot
\* without payload, and the renderer skips that slot.
C10_FailedSlotEmpty ==
  (result = "failed" /\ wpc # "edge") =>
    LET r == completed[Len(completed)] IN
      /\ latest_response > slot_of[r]
      /\ ~responses[slot_of[r]].alloc
      /\ slot_of[r] \notin rendered

\* C11: latest_response never decreases and never exceeds Capacity, and the
\* slot index reserved for a transfer that is started is below Capacity.
C11_CursorBounded ==
  [][ /\ latest_response' >= latest_response
      /\ latest_response' <= Capacity
      /\ (started' # started) => (writedata' < Capacity /\ writedata' >= 0)
    ]_vars

\* A transfer has written into the last slot of the array.
C11_Witness ==
  /\ alive = 1 /\ writedata = Capacity - 1
  /\ responses[Capacity - 1].alloc

\* C17 (as claimed): every publish made while the main loop runs is
\* followed by a redraw that reads a latest_response at least as large.
C17_PublishThenRedraw ==
  \A n \in 1..MaxRequests :
    (latest_response = n /\ wpc = "notify" /\ UIRunning)
      ~> (upc = "redraw_loop" /\ ui_i >= n)

\* C17 (amended): latest_response is incremented before the wake byte is
\* written, and every publish made while the main loop runs is followed by
\* a redraw that reads a latest_response at least as large, unless the main
\* loop is left (Ctrl + C) first.  latest_response never decreases, so a
\* redraw that reads the value of its own time reads one at least as large
\* as the published one.
C17_PublishThenRedrawOrQuit ==
  /\ [][ /\ (latest_response' # latest_response)
             => /\ latest_response' > latest_response
                /\ notify' = notify /\ (wpc' = "notify" \/ aborted')
         /\ (wpc = "notify" /\ wpc' # wpc) => notify' = notify + 1
      ]_vars
  /\ (wpc = "notify" /\ UIRunning)
       ~> ((upc = "redraw_loop" /\ ui_i >= latest_response) \/ ~UIRunning)

\* The redraw that follows a publish has read the new latest_response and
\* reached the published slot with payload.
C17_Witness ==
  /\ upc = "redraw_loop" /\ ui_i = 0
  /\ latest_response = 1 /\ rendered = {0}
  /\ wpc = "poll"

\* C18 (as claimed): the assert of line 224 fails only when a completed
\* transfer would push latest_response beyond Capacity.
C18_AbortOnlyBeyondCapacity ==
  CapacityAbort => latest_response > Capacity

\* C18 (amended): the assert of line 224 fails exactly when a completed
\* transfer makes latest_response reach Capacity, so latest_response =
\* Capacity holds in the aborted process only.
C18_AbortWhenFull ==
  /\ latest_response <= Capacity
  /\ (latest_response = Capacity) <=> CapacityAbort

\* The transfer into the last slot has completed and the process aborted.
C18_Witness ==
  /\ CapacityAbort /\ latest_response = Capacity
  /\ responses[Capacity - 1].alloc

\* C20 (as claimed): no write to the wake pipe happens while it is closed,
\* so the assert of notify_main never fails.
C20_WakeWriteWhileOpen ==
  ~(aborted /\ ~notify_open)

\* C14: backspace or delete removes the last character of a non-empty buf
\* and leaves an empty buf empty; scroll and the command pipe do not change.
C14_Backspace ==
  [][ (keys_left' # keys_left /\ key' \in {"DEL", "BS"})
        => /\ buf' = IF Len(buf) = 0
                       THEN <<>>
                       ELSE [i \in 1..(Len(buf) - 1) |-> buf[i]]
           /\ scroll' = scroll
           /\ pipe' = pipe /\ nsub' = nsub
    ]_vars

\* A backspace has been read and the input line is empty.
C14_Witness ==
  /\ key \in {"DEL", "BS"} /\ buf = <<>>
  /\ keys_left < MaxKeys

\* C15: buf never holds more than BufSize - 1 = 127 characters; a printable
\* character other than the quotes is appended exactly while the length is
\* below 127, and a character that is not printable changes nothing.
C15_InputBounded ==
  /\ [](Len(buf) <= BufSize - 1)
  /\ [][ /\ (keys_left' # keys_left /\ key' \in Printable)
             => buf' = IF Len(buf) < BufSize - 1
                         THEN buf \o <<key'>>
                         ELSE buf
         /\ (keys_left' # keys_left /\ key' = "OTHER") => buf' = buf
      ]_vars

\* A printable character has been read at the end of a full input line.
C15_Witness ==
  /\ Len(buf) = BufSize - 1 /\ key \in Printable
  /\ keys_left = MaxKeys - 1

\* C16: a carriage return enqueues exactly one pipe_event whose url is buf
\* as it was, clears buf and leaves scroll alone; no other character
\* enqueues anything.
C16_SubmitOnReturn ==
  [][ /\ (keys_left' # keys_left /\ key' = "CR")
           => /\ Len(pipe') = Len(pipe) + 1
              /\ SubSeq(pipe', 1, Len(pipe)) = pipe
              /\ url_of'[pipe'[Len(pipe')]] = buf
              /\ buf' = <<>>
              /\ scroll' = scroll
      /\ (keys_left' # keys_left /\ key' # "CR") => pipe' = pipe
    ]_vars

\* A non-empty input line has been submitted and after it an empty one.
C16_Witness ==
  /\ key = "CR" /\ pipe = <<1, 2>>
  /\ url_of[1] # <<>> /\ url_of[2] = <<>>
  /\ buf = <<>>

\* ---- the renderer's claims ------------------------------------------------

\* The starts <<slot, position>> of the logical lines stored in the published
\* slots that hold a payload
StoredLines ==
  UNION {{<<s, p>> : p \in {q \in 0..(responses[s].size - 1) :
                              q = 0 \/ responses[s].response[q] = "\n"}}
           : s \in {t \in 0..(latest_response - 1) : responses[t].alloc}}

TotalLines == Cardinality(StoredLines)

\* Bottom-up order: a later slot first, and within a slot a later line first
Newer(a, b) == a[1] > b[1] \/ (a[1] = b[1] /\ a[2] > b[2])

NthNewest(n) ==
  CHOOSE l \in StoredLines :
    Cardinality({m \in StoredLines : Newer(m, l)}) = n - 1

\* The log rows of a viewport whose bottom log row shows the (k+1)-th newest
\* line and whose rows above it show the lines that follow
ShownFrom(k) ==
  LET room == IF win.rows - 1 < TotalLines - k
                THEN win.rows - 1 ELSE TotalLines - k
  IN  [j \in 1..room |->
         <<win.rows - j,
           PrintLine(responses[NthNewest(k + j)[1]], NthNewest(k + j)[2],
                     win.cols)>>]

\* redraw has printed the screen for the present scroll
Drawn == upc = "poll" /\ screen # <<>>

LogRows == SubSeq(screen, 1, Len(screen) - 1)

\* What C12 says about every printed row but the count of rows: log lines
\* on distinct rows 1..R-1, the input line last on row R, all cut to C
RowsWellPlaced ==
  /\ \A i \in 1..Len(LogRows) :
       /\ LogRows[i][1] \in 1..(win.rows - 1)
       /\ \A j \in 1..Len(LogRows) : i # j => LogRows[i][1] # LogRows[j][1]
  /\ win.rows <= 1 => LogRows = <<>>
  /\ screen[Len(screen)][1] = win.rows
  /\ \A i \in 1..Len(screen) : Len(screen[i][2]) <= win.cols

\* C12 as stated: one redraw prints at most R rows, the input line included
\* (log lines only on rows 1..R-1, the input line on row R, no log line when
\* R <= 1), and every printed line is cut to at most C characters.
C12_AtMostRRows ==
  Drawn => (Len(screen) <= win.rows /\ RowsWellPlaced)

\* C12, amended: the input line is printed on row R whatever R is, so one
\* redraw prints at most R rows when R >= 1 and one row when R = 0; log lines
\* are printed only on rows 1..R-1, and every printed line is cut to at most
\* C characters.
C12_AtMostRRowsOrInputLine ==
  Drawn =>
    /\ Len(screen) <= (IF win.rows >= 1 THEN win.rows ELSE 1)
    /\ screen[Len(screen)] = <<win.rows, PrintBuf(buf, win.cols)>>
    /\ RowsWellPlaced

\* Every row of the viewport is printed, from a log with more lines than
\* log rows, and every line is cut to the one column there is.
C12_Witness ==
  /\ Drawn /\ win.rows >= 2 /\ win.cols = 1
  /\ TotalLines - scroll > win.rows - 1
  /\ Len(screen) = win.rows
  /\ \A i \in 1..Len(screen) : Len(screen[i][2]) = 1

\* C13: for 0 <= k < total stored lines, a redraw with scroll = k skips
\* exactly the k newest lines: the bottom log row shows the (k+1)-th newest
\* line and the rows above it the lines that follow, in order.
C13_ScrollSkips ==
  (Drawn /\ 0 <= scroll /\ scroll < TotalLines) => LogRows = ShownFrom(scroll)

\* One line of a log of three lines in two payloads is skipped and the two
\* others are shown.
C13_Witness ==
  /\ Drawn /\ scroll = 1 /\ TotalLines = 3
  /\ latest_response = 2 /\ responses[0].alloc /\ responses[1].alloc
  /\ win.rows = 3 /\ Len(LogRows) = 2

\* C19: the double-quote key subtracts 1 from scroll and the single-quote
\* key adds 1, whatever scroll is; a redraw with scroll <= 0 prints what a
\* redraw with scroll = 0 prints, and a redraw with scroll >= total stored
\* lines prints no log row.
C19_ScrollUnclamped ==
  /\ [][ /\ (keys_left' # keys_left /\ key' = "DQ") => scroll' = scroll - 1
         /\ (keys_left' # keys_left /\ key' = "SQ") => scroll' = scroll + 1
      ]_vars
  /\ []((Drawn /\ scroll <= 0) => LogRows = ShownFrom(0))
  /\ []((Drawn /\ scroll >= TotalLines) => LogRows = <<>>)

\* The double-quote key has taken scroll below 0 and log rows are shown.
C19_Witness ==
  /\ Drawn /\ key = "DQ" /\ scroll < 0
  /\ LogRows # <<>>

====
